---- MODULE Spec2Model ----
(***************************************************************************)
(* Model of the rexsgdata crate (src/src/lib.rs): the SgData value, its    *)
(* Serialize implementation (variant dispatch, SgList traversal of a       *)
(* caller-owned iovec array, Element zero runs and regions), the derived   *)
(* Deserialize, and IntoIterator.                                          *)
(*                                                                         *)
(* The serde codec is the external collaborator.  Serialization is         *)
(* modelled as the sequence of calls the crate makes on the Serializer     *)
(* (the serde data model, as serde_test records it in src/tests/data.rs),  *)
(* and the byte codec is the one the crate's round-trip tests use          *)
(* (bincode: u32 variant index, u64 sequence length, one byte per u8,      *)
(* all little-endian).                                                     *)
(*                                                                         *)
(* A usize is kept at its width: it is the tuple of its 8 little-endian    *)
(* bytes, so that `count as usize` of a negative c_int is representable.   *)
(***************************************************************************)
EXTENDS Integers, Sequences, FiniteSets, TLC

VARIABLES
    value,      \* the SgData value the caller holds (NoValue when none / moved)
    iovs,       \* the caller-owned iovec array an SgList points into
    ser,        \* outcome of the last SgData::serialize (NotRun or a serializer state)
    buf,        \* the wire bytes at hand (output of serialize, or an input fed in)
    decoded,    \* outcome of the last deserialize call (NotRun or a decode result)
    flat        \* outcome of the last into_iter (NotRun, "panic", or the buffers)

vars == <<value, iovs, ser, buf, decoded, flat>>

----------------------------------------------------------------------------
(* Bounds of the model *)

MaxLen  == 2    \* longest owned byte buffer
MaxBufs == 2    \* longest list (of buffers, of Elements, of iovec entries)
MaxZle  == 5    \* largest zero run
MaxNeg  == 1    \* most negative iovec count tried is -MaxNeg
MaxChop == 1    \* most bytes cut off the end of a fed wire input

----------------------------------------------------------------------------
(* Data *)

\* byte values used in owned buffers
Byte == {0, 255}

\* caller-owned memory that regions point into; an address is an offset in it
Mem == <<36, 123, 234>>

NotRun  == [run |-> FALSE]
NoValue == [tag |-> "None"]

RECURSIVE SeqsUpTo(_, _)
SeqsUpTo(S, n) ==
    IF n = 0 THEN {<<>>}
    ELSE LET shorter == SeqsUpTo(S, n - 1)
         IN  shorter \cup {Append(s, x) : s \in {t \in shorter : Len(t) = n - 1}, x \in S}

Bufs == SeqsUpTo(Byte, MaxLen)

\* libc::iovec { iov_base, iov_len } over memory that is live: the caller's
\* obligation for every region handed to the crate
Iovecs == {[iov_base |-> p, iov_len |-> l] : p \in 0..(Len(Mem) - 1), l \in 0..Len(Mem)}
ValidIovecs == {v \in Iovecs : v.iov_base + v.iov_len <= Len(Mem)}

\* slice::from_raw_parts(base, len)
from_raw_parts(base, len) == [i \in 1..len |-> Mem[base + i]]

\* Element::zero
Element_zero(size) == [kind |-> "Zle", size |-> size]

\* From<iovec> for Element / From<(*mut c_void, size_t)> for Element
Element_from(iov) == [kind |-> "Iovec", iov |-> iov]

Elements == {Element_zero(n) : n \in 0..MaxZle} \cup {Element_from(v) : v \in ValidIovecs}

\* SgList::new: stores the pointer and the count, validates nothing
SgList_new(iovec, count) == [iovec |-> iovec, count |-> count]

\* From<SgList>, From<Vec<Vec<u8>>>, From<Vec<u8>>, FromIterator<Element>
SgData_SgList(sglist) == [tag |-> "SgList", sglist |-> sglist]
SgData_SgVec(sgvec)   == [tag |-> "SgVec", sgvec |-> sgvec]
SgData_Direct(b)      == [tag |-> "Direct", buf |-> b]
SgData_Element(vec)   == [tag |-> "Element", vec |-> vec]

----------------------------------------------------------------------------
(* usize at its width *)

RECURSIVE Pow256(_)
Pow256(i) == IF i = 0 THEN 1 ELSE 256 * Pow256(i - 1)

\* `n as usize` for a signed n of small magnitude: the 8 little-endian bytes
\* of the two's complement value (sign-extended)
AsUsize(n) ==
    [i \in 1..8 |-> IF i <= 3 THEN (n \div Pow256(i - 1)) % 256
                    ELSE IF n < 0 THEN 255 ELSE 0]

\* `n as u32`, 4 little-endian bytes
AsU32(n) == SubSeq(AsUsize(n), 1, 4)

----------------------------------------------------------------------------
(* The Serializer: the calls the crate makes on it, and their outcome *)

Token_TupleVariant(name, idx, variant, len) == <<"TupleVariant", name, idx, variant, len>>
Token_Seq(len)        == <<"Seq", len>>
Token_U8(b)           == <<"U8", b>>
Token_SeqEnd          == <<"SeqEnd">>
Token_TupleVariantEnd == <<"TupleVariantEnd">>

Ok       == <<"Ok">>
Err(e)   == <<"Err", e>>
IsErr(s) == s.ret[1] = "Err"

\* a fresh serializer whose k-th call fails (k = 0: none does)
Serializer(k) ==
    [failAt |-> k, n |-> 0, out |-> <<>>, ret |-> Ok, failed |-> <<>>,
     late |-> 0, reads |-> <<>>]

\* one call on the Serializer.  `out` is what the codec accepted, `ret` the
\* Result of this call, `failed` the first error the codec reported, `late`
\* the number of calls made after the codec had reported an error.
Emit(s, c) ==
    LET k     == s.n + 1
        fails == (k = s.failAt)
    IN  [s EXCEPT !.n      = k,
                  !.out    = IF fails THEN @ ELSE Append(@, c),
                  !.ret    = IF fails THEN Err(<<"codec", k>>) ELSE Ok,
                  !.failed = IF @ = <<>> /\ fails THEN Err(<<"codec", k>>) ELSE @,
                  !.late   = IF s.failed # <<>> THEN @ + 1 ELSE @]

\* Serializer::collect_seq over bytes (serde's impl for [u8], Vec<u8> and
\* iterators of u8): serialize_seq(Some(len))?, serialize_element per byte
\* with ?, then end()
RECURSIVE serialize_bytes_from(_, _, _)
serialize_bytes_from(s, bytes, i) ==
    IF i > Len(bytes) THEN s
    ELSE LET s1 == Emit(s, Token_U8(bytes[i]))
         IN  IF IsErr(s1) THEN s1 ELSE serialize_bytes_from(s1, bytes, i + 1)

collect_seq(s, bytes) ==
    LET s1 == Emit(s, Token_Seq(AsUsize(Len(bytes))))
    IN  IF IsErr(s1) THEN s1
        ELSE LET s2 == serialize_bytes_from(s1, bytes, 1)
             IN  IF IsErr(s2) THEN s2 ELSE Emit(s2, Token_SeqEnd)

\* Mutant of Element_serialize: the zero run is one byte too long
Element_serialize_LongZle(e, s) ==
    IF e.kind = "Zle"
    THEN collect_seq(s, [i \in 1..(e.size + 1) |-> 0])
    ELSE collect_seq(s, from_raw_parts(e.iov.iov_base, e.iov.iov_len))

\* impl Serialize for Element
Element_serialize(e, s) ==
    IF e.kind = "Zle"
    THEN collect_seq(s, [i \in 1..e.size |-> 0])
    ELSE collect_seq(s, from_raw_parts(e.iov.iov_base, e.iov.iov_len))

\* Mutant of SgList_serialize_from: every pass reads *self.iovec, the
\* offset(idx) forgotten
RECURSIVE SgList_serialize_from_NoOffset(_, _, _, _)
SgList_serialize_from_NoOffset(sglist, arr, s, idx) ==
    IF idx >= sglist.count THEN s
    ELSE LET iov == arr[sglist.iovec + 1]
             s1  == [s EXCEPT !.reads = Append(@, sglist.iovec)]
             s2  == collect_seq(s1, from_raw_parts(iov.iov_base, iov.iov_len))
         IN  IF IsErr(s2) THEN s2
             ELSE SgList_serialize_from_NoOffset(sglist, arr, s2, idx + 1)

\* Mutant of SgList_serialize_from: the Result of seq.serialize_element(buf)
\* is dropped instead of propagated with ?
RECURSIVE SgList_serialize_from_NoTry(_, _, _, _)
SgList_serialize_from_NoTry(sglist, arr, s, idx) ==
    IF idx >= sglist.count THEN s
    ELSE LET iov == arr[sglist.iovec + idx + 1]
             s1  == [s EXCEPT !.reads = Append(@, sglist.iovec + idx)]
             s2  == collect_seq(s1, from_raw_parts(iov.iov_base, iov.iov_len))
         IN  SgList_serialize_from_NoTry(sglist, arr, [s2 EXCEPT !.ret = Ok], idx + 1)

\* impl Serialize for SgList: the loop over idx in 0..self.count as isize
RECURSIVE SgList_serialize_from(_, _, _, _)
SgList_serialize_from(sglist, arr, s, idx) ==
    IF idx >= sglist.count THEN s
    ELSE LET iov == arr[sglist.iovec + idx + 1]
             s1  == [s EXCEPT !.reads = Append(@, sglist.iovec + idx)]
             s2  == collect_seq(s1, from_raw_parts(iov.iov_base, iov.iov_len))
         IN  IF IsErr(s2) THEN s2
             ELSE SgList_serialize_from(sglist, arr, s2, idx + 1)

\* Mutant of SgList_serialize: the loop starts at 1..count, not 0..count
SgList_serialize_SkipFirst(sglist, arr, s) ==
    LET s1 == Emit(s, Token_Seq(AsUsize(sglist.count)))
    IN  IF IsErr(s1) THEN s1
        ELSE LET s2 == SgList_serialize_from(sglist, arr, s1, 1)
             IN  IF IsErr(s2) THEN s2 ELSE Emit(s2, Token_SeqEnd)

SgList_serialize(sglist, arr, s) ==
    LET s1 == Emit(s, Token_Seq(AsUsize(sglist.count)))
    IN  IF IsErr(s1) THEN s1
        ELSE LET s2 == SgList_serialize_from(sglist, arr, s1, 0)
             IN  IF IsErr(s2) THEN s2 ELSE Emit(s2, Token_SeqEnd)

\* serde's impl Serialize for Vec<T>, T = Vec<u8>
RECURSIVE SgVec_serialize_from(_, _, _)
SgVec_serialize_from(sgvec, s, i) ==
    IF i > Len(sgvec) THEN s
    ELSE LET s1 == collect_seq(s, sgvec[i])
         IN  IF IsErr(s1) THEN s1 ELSE SgVec_serialize_from(sgvec, s1, i + 1)

SgVec_serialize(sgvec, s) ==
    LET s1 == Emit(s, Token_Seq(AsUsize(Len(sgvec))))
    IN  IF IsErr(s1) THEN s1
        ELSE LET s2 == SgVec_serialize_from(sgvec, s1, 1)
             IN  IF IsErr(s2) THEN s2 ELSE Emit(s2, Token_SeqEnd)

\* serde's impl Serialize for Vec<T>, T = Element
RECURSIVE ElementVec_serialize_from(_, _, _)
ElementVec_serialize_from(vec, s, i) ==
    IF i > Len(vec) THEN s
    ELSE LET s1 == Element_serialize(vec[i], s)
         IN  IF IsErr(s1) THEN s1 ELSE ElementVec_serialize_from(vec, s1, i + 1)

ElementVec_serialize(vec, s) ==
    LET s1 == Emit(s, Token_Seq(AsUsize(Len(vec))))
    IN  IF IsErr(s1) THEN s1
        ELSE LET s2 == ElementVec_serialize_from(vec, s1, 1)
             IN  IF IsErr(s2) THEN s2 ELSE Emit(s2, Token_SeqEnd)

\* Mutant of SgData_serialize: the Direct arm writes the SgVec tag
SgData_serialize_DirectAsSgVec(v, arr, s) ==
    CASE v.tag = "SgList" ->
            LET data == Emit(s, Token_TupleVariant("SgData", 1, "SgVec", 1))
            IN  IF IsErr(data) THEN data
                ELSE LET field == SgList_serialize(v.sglist, arr, data)
                     IN  IF IsErr(field) THEN field
                         ELSE Emit(field, Token_TupleVariantEnd)
      [] v.tag = "SgVec" ->
            LET data == Emit(s, Token_TupleVariant("SgData", 1, "SgVec", 1))
            IN  IF IsErr(data) THEN data
                ELSE LET field == SgVec_serialize(v.sgvec, data)
                     IN  IF IsErr(field) THEN field
                         ELSE Emit(field, Token_TupleVariantEnd)
      [] v.tag = "Direct" ->
            LET data == Emit(s, Token_TupleVariant("SgData", 1, "SgVec", 1))
            IN  IF IsErr(data) THEN data
                ELSE LET field == collect_seq(data, v.buf)
                     IN  IF IsErr(field) THEN field
                         ELSE Emit(field, Token_TupleVariantEnd)
      [] v.tag = "Element" ->
            LET data == Emit(s, Token_TupleVariant("SgData", 1, "SgVec", 1))
            IN  IF IsErr(data) THEN data
                ELSE LET field == ElementVec_serialize(v.vec, data)
                     IN  IF IsErr(field) THEN field
                         ELSE Emit(field, Token_TupleVariantEnd)

\* Mutant of SgData_serialize: the Element arm writes its own tag instead of
\* mimicking SgVec
SgData_serialize_ElementOwnTag(v, arr, s) ==
    CASE v.tag = "SgList" ->
            LET data == Emit(s, Token_TupleVariant("SgData", 1, "SgVec", 1))
            IN  IF IsErr(data) THEN data
                ELSE LET field == SgList_serialize(v.sglist, arr, data)
                     IN  IF IsErr(field) THEN field
                         ELSE Emit(field, Token_TupleVariantEnd)
      [] v.tag = "SgVec" ->
            LET data == Emit(s, Token_TupleVariant("SgData", 1, "SgVec", 1))
            IN  IF IsErr(data) THEN data
                ELSE LET field == SgVec_serialize(v.sgvec, data)
                     IN  IF IsErr(field) THEN field
                         ELSE Emit(field, Token_TupleVariantEnd)
      [] v.tag = "Direct" ->
            LET data == Emit(s, Token_TupleVariant("SgData", 2, "Direct", 1))
            IN  IF IsErr(data) THEN data
                ELSE LET field == collect_seq(data, v.buf)
                     IN  IF IsErr(field) THEN field
                         ELSE Emit(field, Token_TupleVariantEnd)
      [] v.tag = "Element" ->
            LET data == Emit(s, Token_TupleVariant("SgData", 3, "Element", 1))
            IN  IF IsErr(data) THEN data
                ELSE LET field == ElementVec_serialize(v.vec, data)
                     IN  IF IsErr(field) THEN field
                         ELSE Emit(field, Token_TupleVariantEnd)

\* impl Serialize for SgData: one arm per variant, each
\*   let mut data = serializer.serialize_tuple_variant(..)?;
\*   data.serialize_field(x)?;
\*   data.end()
SgData_serialize(v, arr, s) ==
    CASE v.tag = "SgList" ->
            LET data == Emit(s, Token_TupleVariant("SgData", 1, "SgVec", 1))
            IN  IF IsErr(data) THEN data
                ELSE LET field == SgList_serialize(v.sglist, arr, data)
                     IN  IF IsErr(field) THEN field
                         ELSE Emit(field, Token_TupleVariantEnd)
      [] v.tag = "SgVec" ->
            LET data == Emit(s, Token_TupleVariant("SgData", 1, "SgVec", 1))
            IN  IF IsErr(data) THEN data
                ELSE LET field == SgVec_serialize(v.sgvec, data)
                     IN  IF IsErr(field) THEN field
                         ELSE Emit(field, Token_TupleVariantEnd)
      [] v.tag = "Direct" ->
            LET data == Emit(s, Token_TupleVariant("SgData", 2, "Direct", 1))
            IN  IF IsErr(data) THEN data
                ELSE LET field == collect_seq(data, v.buf)
                     IN  IF IsErr(field) THEN field
                         ELSE Emit(field, Token_TupleVariantEnd)
      [] v.tag = "Element" ->
            LET data == Emit(s, Token_TupleVariant("SgData", 1, "SgVec", 1))
            IN  IF IsErr(data) THEN data
                ELSE LET field == ElementVec_serialize(v.vec, data)
                     IN  IF IsErr(field) THEN field
                         ELSE Emit(field, Token_TupleVariantEnd)

----------------------------------------------------------------------------
(* The byte codec of the round-trip tests (bincode::serialize) *)

\* the bytes bincode writes for one Serializer call: the u32 variant index,
\* the u64 sequence length, the byte itself; the closing calls write nothing
bincode_token(c) ==
    CASE c[1] = "TupleVariant" -> AsU32(c[3])
      [] c[1] = "Seq"          -> c[2]
      [] c[1] = "U8"           -> <<c[2]>>
      [] OTHER                 -> <<>>

RECURSIVE bincode_tokens(_)
bincode_tokens(out) ==
    IF out = <<>> THEN <<>>
    ELSE bincode_token(Head(out)) \o bincode_tokens(Tail(out))

\* bincode::serialize(&data): the bytes on success, no bytes (NoBuf, which
\* is no sequence of bytes) on an error
NoBuf == <<-1>>
bincode_serialize(s) == IF IsErr(s) THEN NoBuf ELSE bincode_tokens(s.out)

----------------------------------------------------------------------------
(* Deserialization (bincode::deserialize driving the Deserialize impls) *)

\* a decode outcome: the Result, the value built, the input bytes consumed
DeOk(val, pos)  == [ret |-> Ok, val |-> val, pos |-> pos]
DeErr(msg, pos) == [ret |-> Err(msg), val |-> NoValue, pos |-> pos]
DeIsErr(r)      == r.ret[1] = "Err"

\* a u64 length as a count of elements to read.  Every element of Vec<u8> and
\* Vec<Vec<u8>> consumes input, so a length above the bytes at hand behaves
\* as any other such length: it is represented by Len(input) + 1.
U64Count(le, input) ==
    LET low == le[1] + 256 * le[2] + 65536 * le[3]
    IN  IF \A i \in 4..8 : le[i] = 0
        THEN IF low <= Len(input) THEN low ELSE Len(input) + 1
        ELSE Len(input) + 1

\* Mutant of Element_deserialize: an empty zero run is returned
Element_deserialize_Zero(input, pos) == DeOk(Element_zero(0), pos)

\* impl Deserialize for Element: the deserializer is not used
Element_deserialize(input, pos) == DeErr("Cannot deserialize Element", pos)

\* impl Deserialize for SgList: the deserializer is not used
SgList_deserialize(input, pos) == DeErr("Cannot deserialize SgList", pos)

\* serde's VecVisitor::visit_seq for Vec<u8>: next_element()? per announced item
RECURSIVE VecU8_visit_seq(_, _, _, _)
VecU8_visit_seq(input, pos, n, acc) ==
    IF n = 0 THEN DeOk(acc, pos)
    ELSE IF pos + 1 > Len(input) THEN DeErr("UnexpectedEof", pos)
    ELSE VecU8_visit_seq(input, pos + 1, n - 1, Append(acc, input[pos + 1]))

\* Vec<u8>::deserialize under bincode: the u64 length, then the items
VecU8_deserialize(input, pos) ==
    IF pos + 8 > Len(input) THEN DeErr("UnexpectedEof", pos)
    ELSE VecU8_visit_seq(input, pos + 8,
                         U64Count(SubSeq(input, pos + 1, pos + 8), input), <<>>)

\* serde's VecVisitor::visit_seq for Vec<Vec<u8>>
RECURSIVE VecVec_visit_seq(_, _, _, _)
VecVec_visit_seq(input, pos, n, acc) ==
    IF n = 0 THEN DeOk(acc, pos)
    ELSE LET r == VecU8_deserialize(input, pos)
         IN  IF DeIsErr(r) THEN r
             ELSE VecVec_visit_seq(input, r.pos, n - 1, Append(acc, r.val))

VecVec_deserialize(input, pos) ==
    IF pos + 8 > Len(input) THEN DeErr("UnexpectedEof", pos)
    ELSE VecVec_visit_seq(input, pos + 8,
                          U64Count(SubSeq(input, pos + 1, pos + 8), input), <<>>)

\* serde's VecVisitor::visit_seq for Vec<Element>: Element::deserialize is
\* called once per announced item, and not at all for an empty sequence
RECURSIVE VecElement_visit_seq(_, _, _, _)
VecElement_visit_seq(input, pos, n, acc) ==
    IF n = 0 THEN DeOk(acc, pos)
    ELSE LET r == Element_deserialize(input, pos)
         IN  IF DeIsErr(r) THEN r
             ELSE VecElement_visit_seq(input, r.pos, n - 1, Append(acc, r.val))

VecElement_deserialize(input, pos) ==
    IF pos + 8 > Len(input) THEN DeErr("UnexpectedEof", pos)
    ELSE VecElement_visit_seq(input, pos + 8,
                              U64Count(SubSeq(input, pos + 1, pos + 8), input), <<>>)

\* #[derive(Deserialize)] for SgData under bincode: the u32 variant index
\* selects the variant in declaration order, whose one field is deserialized
SgData_deserialize(input) ==
    IF Len(input) < 4 THEN DeErr("UnexpectedEof", 0)
    ELSE LET idx == SubSeq(input, 1, 4)
         IN  CASE idx = AsU32(0) ->
                    LET r == SgList_deserialize(input, 4)
                    IN  IF DeIsErr(r) THEN r ELSE DeOk(SgData_SgList(r.val), r.pos)
               [] idx = AsU32(1) ->
                    LET r == VecVec_deserialize(input, 4)
                    IN  IF DeIsErr(r) THEN r ELSE DeOk(SgData_SgVec(r.val), r.pos)
               [] idx = AsU32(2) ->
                    LET r == VecU8_deserialize(input, 4)
                    IN  IF DeIsErr(r) THEN r ELSE DeOk(SgData_Direct(r.val), r.pos)
               [] idx = AsU32(3) ->
                    LET r == VecElement_deserialize(input, 4)
                    IN  IF DeIsErr(r) THEN r ELSE DeOk(SgData_Element(r.val), r.pos)
               [] OTHER -> DeErr("invalid value: variant index", 4)

----------------------------------------------------------------------------
(* Flattening *)

\* Mutant of SgData_into_iter: an Element value flattens to no buffers
SgData_into_iter_Lenient(v) ==
    CASE v.tag = "SgList"  -> [ret |-> "panic", items |-> <<>>]
      [] v.tag = "SgVec"   -> [ret |-> "iter", items |-> v.sgvec]
      [] v.tag = "Direct"  -> [ret |-> "iter", items |-> <<v.buf>>]
      [] v.tag = "Element" -> [ret |-> "iter", items |-> <<>>]

\* impl IntoIterator for SgData: unimplemented!() panics for SgList and Element
SgData_into_iter(v) ==
    CASE v.tag = "SgList"  -> [ret |-> "panic", items |-> <<>>]
      [] v.tag = "SgVec"   -> [ret |-> "iter", items |-> v.sgvec]
      [] v.tag = "Direct"  -> [ret |-> "iter", items |-> <<v.buf>>]
      [] v.tag = "Element" -> [ret |-> "panic", items |-> <<>>]

----------------------------------------------------------------------------
(* Inputs *)

SgVecs      == SeqsUpTo(Bufs, MaxBufs)
ElementVecs == SeqsUpTo(Elements, MaxBufs)
IovecArrays == SeqsUpTo(ValidIovecs, MaxBufs)

\* the SgList values over an iovec array: every window of the array (the
\* caller's obligation), and the negative counts SgList::new also takes
SgListsOver(arr) ==
    {SgList_new(p, c) : p \in 0..Len(arr), c \in (0 - MaxNeg)..Len(arr)} \
        {l \in [iovec : 0..Len(arr), count : 0..Len(arr)] : l.iovec + l.count > Len(arr)}

\* wire inputs: a variant index (the four variants and one unknown index)
\* followed by a well-formed buffer or list-of-buffers payload, possibly
\* with bytes cut off the end
Chop(w, c) == SubSeq(w, 1, Len(w) - c)

WirePayloads ==
    {bincode_tokens(collect_seq(Serializer(0), b).out) : b \in Bufs} \cup
    {bincode_tokens(SgVec_serialize(V, Serializer(0)).out) : V \in SgVecs}

WireInputs ==
    {Chop(AsU32(idx) \o w, c) : idx \in 0..4, w \in WirePayloads, c \in 0..MaxChop}

----------------------------------------------------------------------------
(* The state machine: a caller constructing values and applying the crate's
   operations to them *)

Idle ==
    /\ value = NoValue /\ ser = NotRun /\ buf = NoBuf
    /\ decoded = NotRun /\ flat = NotRun

Init ==
    /\ value = NoValue
    /\ iovs = <<>>
    /\ ser = NotRun
    /\ buf = NoBuf
    /\ decoded = NotRun
    /\ flat = NotRun

\* SgData::from(SgList::new(iovec, count))
FromSgList ==
    /\ Idle
    /\ \E arr \in IovecArrays : \E l \in SgListsOver(arr) :
          /\ iovs' = arr
          /\ value' = SgData_SgList(l)
    /\ UNCHANGED <<ser, buf, decoded, flat>>

\* SgData::from(Vec<Vec<u8>>), FromIterator<Vec<u8>>
FromSgVec ==
    /\ Idle
    /\ \E V \in SgVecs : value' = SgData_SgVec(V)
    /\ UNCHANGED <<iovs, ser, buf, decoded, flat>>

\* SgData::from(Vec<u8>), FromIterator<u8>
FromDirect ==
    /\ Idle
    /\ \E b \in Bufs : value' = SgData_Direct(b)
    /\ UNCHANGED <<iovs, ser, buf, decoded, flat>>

\* FromIterator<Element>
FromElements ==
    /\ Idle
    /\ \E vec \in ElementVecs : value' = SgData_Element(vec)
    /\ UNCHANGED <<iovs, ser, buf, decoded, flat>>

\* bincode::serialize(&value) with a codec whose k-th call fails (k = 0: none)
Serialize ==
    /\ value # NoValue
    /\ ser = NotRun
    /\ \E k \in 0..SgData_serialize(value, iovs, Serializer(0)).n :
          LET s == SgData_serialize(value, iovs, Serializer(k))
          IN  /\ ser' = s
              /\ buf' = bincode_serialize(s)
    /\ UNCHANGED <<value, iovs, decoded, flat>>

\* wire bytes arriving from elsewhere
Feed ==
    /\ Idle
    /\ \E w \in WireInputs : buf' = w
    /\ UNCHANGED <<value, iovs, ser, decoded, flat>>

\* bincode::deserialize::<SgData>(&buf)
Deserialize ==
    /\ buf # NoBuf
    /\ decoded = NotRun
    /\ decoded' = [of |-> "SgData", res |-> SgData_deserialize(buf)]
    /\ UNCHANGED <<value, iovs, ser, buf, flat>>

\* bincode::deserialize::<Element>(&buf)
DeserializeElement ==
    /\ buf # NoBuf
    /\ decoded = NotRun
    /\ decoded' = [of |-> "Element", res |-> Element_deserialize(buf, 0)]
    /\ UNCHANGED <<value, iovs, ser, buf, flat>>

\* bincode::deserialize::<SgList>(&buf)
DeserializeSgList ==
    /\ buf # NoBuf
    /\ decoded = NotRun
    /\ decoded' = [of |-> "SgList", res |-> SgList_deserialize(buf, 0)]
    /\ UNCHANGED <<value, iovs, ser, buf, flat>>

\* value.into_iter(): consumes the value (taken here on a value that has
\* not been serialized; the operations do not affect one another)
IntoIter ==
    /\ value # NoValue
    /\ ser = NotRun
    /\ flat = NotRun
    /\ flat' = [self |-> value, res |-> SgData_into_iter(value)]
    /\ value' = NoValue
    /\ UNCHANGED <<iovs, ser, buf, decoded>>

\* everything is dropped
Drop ==
    /\ ~Idle
    /\ value' = NoValue
    /\ iovs' = <<>>
    /\ ser' = NotRun
    /\ buf' = NoBuf
    /\ decoded' = NotRun
    /\ flat' = NotRun

Next ==
    \/ FromSgList
    \/ FromSgVec
    \/ FromDirect
    \/ FromElements
    \/ Serialize
    \/ Feed
    \/ Deserialize
    \/ DeserializeElement
    \/ DeserializeSgList
    \/ IntoIter
    \/ Drop

Spec == Init /\ [][Next]_vars

----------------------------------------------------------------------------
(* Vocabulary of the properties *)

\* the last serialize ran and returned Ok
Serialized == ser # NotRun /\ ~IsErr(ser)

\* the last deserialize call was for type `kind`
Decoded(kind) == decoded # NotRun /\ decoded.of = kind

\* the bytes a region denotes, and the bytes an Element denotes
RegionBytes(iov) == [i \in 1..iov.iov_len |-> Mem[iov.iov_base + i]]
ElementBytes(e) ==
    IF e.kind = "Zle" THEN [i \in 1..e.size |-> 0] ELSE RegionBytes(e.iov)

\* an SgList as the spec's data model has it: a non-negative count
WellFormed(v) == v.tag = "SgList" => v.sglist.count >= 0

\* the ordered byte sequences a list-shaped value denotes
Denotes(v, arr) ==
    CASE v.tag = "SgList"  ->
            [i \in 1..v.sglist.count |-> RegionBytes(arr[v.sglist.iovec + i])]
      [] v.tag = "SgVec"   -> v.sgvec
      [] v.tag = "Element" -> [i \in 1..Len(v.vec) |-> ElementBytes(v.vec[i])]

\* the calls that write one byte sequence: its length, its bytes, the close
ByteSeqTokens(bytes) ==
    <<Token_Seq(AsUsize(Len(bytes)))>> \o
    [i \in 1..Len(bytes) |-> Token_U8(bytes[i])] \o
    <<Token_SeqEnd>>

RECURSIVE ConcatByteSeqTokens(_)
ConcatByteSeqTokens(V) ==
    IF V = <<>> THEN <<>>
    ELSE ByteSeqTokens(Head(V)) \o ConcatByteSeqTokens(Tail(V))

\* number of sequences opened in a call trace
RECURSIVE SeqsOpened(_)
SeqsOpened(out) ==
    IF out = <<>> THEN 0
    ELSE (IF Head(out)[1] = "Seq" THEN 1 ELSE 0) + SeqsOpened(Tail(out))

----------------------------------------------------------------------------
(* Properties *)

\* C1: a fully-owned value (Direct, SgVec) that is serialized and then
\* deserialized comes back as an equal value of the same variant, whatever
\* its buffers (empty ones and the empty list included).
C1_OwnedRoundTrip ==
    (Serialized /\ Decoded("SgData") /\ value.tag \in {"Direct", "SgVec"})
        => /\ decoded.res.ret = Ok
           /\ decoded.res.val = value

C1_Witness ==
    /\ Serialized /\ Decoded("SgData")
    /\ value.tag = "SgVec"
    /\ Len(value.sgvec) = 2 /\ value.sgvec[1] = <<>> /\ Len(value.sgvec[2]) = 2
    /\ decoded.res.val = value

\* C2: an SgList (of non-negative count) or Element value that is serialized
\* and then deserialized comes back as SgVec(V), V being the byte sequences
\* its segments denote, in order: never SgList, Element or Direct.
C2_ExternalRoundTripsToOwned ==
    (Serialized /\ Decoded("SgData") /\ value.tag \in {"SgList", "Element"}
        /\ WellFormed(value))
        => /\ decoded.res.ret = Ok
           /\ decoded.res.val = SgData_SgVec(Denotes(value, iovs))

C2_Witness ==
    /\ Serialized /\ Decoded("SgData")
    /\ value.tag = "Element"
    /\ value.vec = <<Element_zero(2), Element_from([iov_base |-> 1, iov_len |-> 2])>>
    /\ decoded.res.val = SgData_SgVec(<<<<0, 0>>, <<123, 234>>>>)

\* C3: the serialized form has two shapes.  An SgList (of non-negative
\* count), SgVec or Element value is written under variant index 1, "SgVec",
\* exactly as the SgVec of the byte sequences it denotes is written (calls and
\* bytes alike); a Direct value is written under variant index 2, "Direct",
\* as one byte sequence with no sequence around it.
C3_TwoWireShapes ==
    Serialized =>
        /\ (value.tag \in {"SgList", "SgVec", "Element"} /\ WellFormed(value)) =>
              LET same == SgData_serialize(SgData_SgVec(Denotes(value, iovs)),
                                           <<>>, Serializer(0))
              IN  /\ ser.out[1] = Token_TupleVariant("SgData", 1, "SgVec", 1)
                  /\ ser.out = same.out
                  /\ buf = bincode_serialize(same)
        /\ value.tag = "Direct" =>
              ser.out = <<Token_TupleVariant("SgData", 2, "Direct", 1)>> \o
                        ByteSeqTokens(value.buf) \o <<Token_TupleVariantEnd>>

C3_Witness ==
    /\ Serialized
    /\ value.tag = "SgList"
    /\ value.sglist.count = 2
    /\ ser.out = SgData_serialize(SgData_SgVec(<<<<36>>, <<123, 234>>>>),
                                  <<>>, Serializer(0)).out

\* C4: serializing an Element value writes one byte sequence per element, in
\* the list's order: for Zle(size) the announced length size and size zero
\* bytes, for an iovec the announced length iov_len and the referenced bytes.
C4_ElementSegments ==
    (Serialized /\ value.tag = "Element") =>
        ser.out = <<Token_TupleVariant("SgData", 1, "SgVec", 1),
                    Token_Seq(AsUsize(Len(value.vec)))>> \o
                  ConcatByteSeqTokens([i \in 1..Len(value.vec) |->
                                          ElementBytes(value.vec[i])]) \o
                  <<Token_SeqEnd, Token_TupleVariantEnd>>

\* the element_mixed test: region [36, 123, 234] followed by Zle(5)
C4_Witness ==
    /\ Serialized
    /\ value = SgData_Element(<<Element_from([iov_base |-> 0, iov_len |-> 3]),
                                Element_zero(5)>>)
    /\ ser.out = <<Token_TupleVariant("SgData", 1, "SgVec", 1),
                   Token_Seq(AsUsize(2)),
                   Token_Seq(AsUsize(3)), Token_U8(36), Token_U8(123), Token_U8(234),
                   Token_SeqEnd,
                   Token_Seq(AsUsize(5)), Token_U8(0), Token_U8(0), Token_U8(0),
                   Token_U8(0), Token_U8(0), Token_SeqEnd,
                   Token_SeqEnd, Token_TupleVariantEnd>>

\* C5: every wire input that SgData deserialization accepts yields a
\* fully-owned value, Direct or SgVec, never SgList or Element.
C5_DecodedIsOwned ==
    (Decoded("SgData") /\ decoded.res.ret = Ok)
        => decoded.res.val.tag \in {"Direct", "SgVec"}

\* C6: into_iter on an SgList or Element value, empty ones included, panics:
\* it returns no iterator and yields no buffer.
C6_FlattenUnsupportedPanics ==
    (flat # NotRun /\ flat.self.tag \in {"SgList", "Element"})
        => /\ flat.res.ret = "panic"
           /\ flat.res.items = <<>>

C6_Witness ==
    /\ flat # NotRun
    /\ flat.self = SgData_Element(<<>>)
    /\ flat.res.ret = "panic"

\* C7: every attempt to deserialize an Element or an SgList fails with the
\* "Cannot deserialize" error, consumes no input and builds no value; so do
\* the attempts SgData deserialization makes for variant index 0 and for
\* each announced item of variant index 3.
C7_UnsupportedDeserialize ==
    /\ Decoded("Element") => decoded.res = DeErr("Cannot deserialize Element", 0)
    /\ Decoded("SgList") => decoded.res = DeErr("Cannot deserialize SgList", 0)
    /\ (Decoded("SgData") /\ Len(buf) >= 4 /\ SubSeq(buf, 1, 4) = AsU32(0))
          => decoded.res = DeErr("Cannot deserialize SgList", 4)
    /\ (Decoded("SgData") /\ Len(buf) >= 12 /\ SubSeq(buf, 1, 4) = AsU32(3)
            /\ SubSeq(buf, 5, 12) # AsUsize(0))
          => decoded.res = DeErr("Cannot deserialize Element", 12)

C7_Witness ==
    /\ Decoded("Element")
    /\ Len(buf) > 12
    /\ decoded.res.ret = Err("Cannot deserialize Element")
    /\ decoded.res.pos = 0

\* C8: serializing an SgList of count n >= 0 announces a sequence of length
\* n, then writes the bytes of descriptors 0, 1, ..., n-1 in that order, and
\* reads exactly those descriptors; with n = 0 it writes an empty sequence
\* and reads none.
C8_SgListWalk ==
    (Serialized /\ value.tag = "SgList" /\ value.sglist.count >= 0) =>
        LET n    == value.sglist.count
            base == value.sglist.iovec
        IN  /\ ser.out = <<Token_TupleVariant("SgData", 1, "SgVec", 1),
                           Token_Seq(AsUsize(n))>> \o
                         ConcatByteSeqTokens([i \in 1..n |->
                                                 RegionBytes(iovs[base + i])]) \o
                         <<Token_SeqEnd, Token_TupleVariantEnd>>
            /\ ser.reads = [i \in 1..n |-> base + i - 1]

C8_Witness ==
    /\ Serialized
    /\ value.tag = "SgList"
    /\ value.sglist = SgList_new(1, 1)
    /\ Len(iovs) = 2
    /\ iovs[2].iov_len = 2
    /\ ser.reads = <<1>>

\* C9: when the codec reports an error at its k-th call, serialize returns
\* that error, has made exactly k calls (none after the failing one), has had
\* accepted exactly the calls before it, and leaves the value as it was.
C9_CodecErrorPropagates ==
    [][(ser = NotRun /\ ser' # NotRun) =>
          /\ value' = value
          /\ iovs' = iovs
          /\ ser'.failAt > 0 =>
                /\ ser'.ret = Err(<<"codec", ser'.failAt>>)
                /\ ser'.ret = ser'.failed
                /\ ser'.n = ser'.failAt
                /\ ser'.late = 0
                /\ ser'.out = SubSeq(SgData_serialize(value, iovs, Serializer(0)).out,
                                     1, ser'.failAt - 1)
                /\ buf' = NoBuf]_vars

\* the codec fails while the second byte sequence of a list is being written
C9_Witness ==
    /\ ser # NotRun
    /\ IsErr(ser)
    /\ value.tag = "SgList"
    /\ Len(ser.reads) = 2
    /\ ser.n = ser.failAt
    /\ ser.out[Len(ser.out)] = Token_SeqEnd

\* C10: for every count SgList::new accepts, the sequence length announced
\* equals the number of byte sequences then written.
C10_AnnouncedEqualsWritten ==
    (Serialized /\ value.tag = "SgList")
        => ser.out[2] = Token_Seq(AsUsize(SeqsOpened(ser.out) - 1))

====
